---- MODULE Spec2Model ----
(***************************************************************************)
(* A model of glowfic-dl (src/glowfic-dl.py): the section splitter         *)
(* (render_posts / Section.append), the image registry (ImageMap), the     *)
(* link rewriter (compile_chapters), the file name sanitizer               *)
(* (make_filename_valid_for_epub3) and the concurrent pipeline of main().  *)
(***************************************************************************)
EXTENDS Integers, Sequences, FiniteSets, TLC

\* ------------------------------------------------------------------------
\* Bounds of the model
\* ------------------------------------------------------------------------
MaxPosts == 4
MaxNameLen == 260
MaxLinkChapters == 2
MaxSections == 2
MaxChapters == 2
MaxIcons == 11
MaxImageFailures == 1
TicksPerSecond == 2

\* ------------------------------------------------------------------------
\* Program constants
\* ------------------------------------------------------------------------
SECTION_SIZE_LIMIT == 200000

\* The longest file name, in UTF-8 bytes, an EPUB 3 container allows
\* (the literal 255 of make_filename_valid_for_epub3).
MAX_FILENAME_BYTES == 255

\* Characters are their code points.
FILENAME_BANNED_CHARS == {47, 92, 34, 42, 58, 60, 62, 63, 124, 127}
FILENAME_BANNED_CHAR_RANGES ==
    << <<0, 31>>,              \* C0
       <<128, 159>>,           \* C1
       <<57344, 63743>>,       \* Private Use Area
       <<64976, 65007>>,       \* Non-Characters in Arabic Presentation Forms-A
       <<65520, 65535>>,       \* Specials
       <<917504, 921599>>,     \* Tags and Variation Selectors Supplement
       <<983040, 1048575>>,    \* Supplementary Private Use Area-A
       <<1048576, 1114111>> >> \* Supplementary Private Use Area-B

DOT == 46

REPLY_RE_HEADS == {"replies", "posts"}
GLOWFIC_NETLOC == "glowfic.com"

\* Rendered sizes (bytes) a post may have.  A rendered post always carries
\* its wrapper markup, so its size is never 0.
PostSizes == {100, 30000, 40000, 100000, 180000, 199900, 200000, 250000}

\* ------------------------------------------------------------------------
\* Generic helpers
\* ------------------------------------------------------------------------
RECURSIVE SumSizes(_)
SumSizes(ps) ==
    IF ps = <<>> THEN 0 ELSE Head(ps).size + SumSizes(Tail(ps))

RECURSIVE ConcatPosts(_)
ConcatPosts(secs) ==
    IF secs = <<>> THEN <<>> ELSE Head(secs).posts \o ConcatPosts(Tail(secs))

Permalinks(ps) == [i \in 1..Len(ps) |-> ps[i].permalink]

\* str(n) for n >= 0.
DigitChars == <<"0", "1", "2", "3", "4", "5", "6", "7", "8", "9">>

RECURSIVE Str(_)
Str(n) ==
    IF n < 10 THEN DigitChars[n + 1]
    ELSE Str(n \div 10) \o DigitChars[(n % 10) + 1]

\* len(str(n)) for n >= 0.
RECURSIVE NumDigits(_)
NumDigits(n) == IF n < 10 THEN 1 ELSE 1 + NumDigits(n \div 10)

RECURSIVE Zeros(_)
Zeros(k) == IF k <= 0 THEN "" ELSE "0" \o Zeros(k - 1)

\* "%.*i" % (width, n): at least `width` digits, zero-padded on the left.
PadInt(n, width) == Zeros(width - NumDigits(n)) \o Str(n)

\* ------------------------------------------------------------------------
\* Data
\* ------------------------------------------------------------------------
\* An href, by the components urlparse gives for it.  path is the sequence
\* of its "/"-separated segments after the leading "/" (rooted = it has
\* that leading "/").  file is the path when it is the name of an output
\* file (a sequence of characters), and then path is empty.
Href(scheme, netloc, rooted, path, fragment) ==
    [scheme |-> scheme, netloc |-> netloc, rooted |-> rooted,
     path |-> path, file |-> <<>>, fragment |-> fragment]

\* The permalink of reply n, "/replies/<n>#reply-<n>", and of the post that
\* opens thread n, "/posts/<n>".
ReplyLink(n) == Href("", "", TRUE, <<"replies", Str(n)>>, "reply-" \o Str(n))
PostLink(n)  == Href("", "", TRUE, <<"posts", Str(n)>>, "")

\* An icon's src: ".../<stem>.<suffix>"; NoIcon stands for a post without
\* an <img class="icon">.
Icon(n) == [stem |-> n, suffix |-> IF n % 2 = 0 THEN "png" ELSE "gif"]
NoIcon  == [stem |-> 0, suffix |-> ""]

\* ------------------------------------------------------------------------
\* State
\* ------------------------------------------------------------------------
VARIABLES
    posts,      \* render_posts: the chapter's posts, in page order
    idx,        \* render_posts: number of posts the for loop has consumed
    out,        \* render_posts: the section being filled
    yielded,    \* render_posts: the sections yielded so far, in order
    rpc,        \* render_posts: "start" | "loop" | "done" ("idle": not running)
    image_map,  \* main: the ImageMap shared by all chapters
    authors,    \* main: the OrderedDict of authors, as its key sequence
    filename,           \* make_filename_valid_for_epub3: the argument
    filtered_filename,  \* make_filename_valid_for_epub3: local
    name_truncated,     \* make_filename_valid_for_epub3: local
    ext,                \* make_filename_valid_for_epub3: local
    fpc,                \* make_filename_valid_for_epub3: position
    pc,             \* main: position
    site,           \* the origin: the chapters it serves, in listing order
    stamped_urls,   \* main: spec.stamped_urls, the locations in discovery order
    tasks,          \* main: position of each download_chapter coroutine
    results,        \* the value each finished download_chapter returned
    completed,      \* the download_chapter coroutines in completion order
    level,          \* limiter: fill level of the bucket, in ticks
    acquisitions,   \* number of limiter.acquire() calls that have returned
    since_acquire,  \* ticks since the last of them (capped at one second)
    origin_gets,    \* number of GETs issued to the origin
    since_get,      \* ticks since the last of them (capped at one second)
    chapters,       \* main / compile_chapters: the (title, sections) list
    anchor_sections,\* compile_chapters: permalink -> file name
    compiled,       \* main: list(compile_chapters(chapters))
    downloads,      \* download_images: outcome of each download_image so far
    book            \* the EPUB written by epub.write_epub, if any

varsSplit   == <<posts, idx, out, yielded, rpc>>
varsName    == <<filename, filtered_filename, name_truncated, ext, fpc>>
varsImg     == <<image_map, authors>>
varsFetch   == <<site, stamped_urls, tasks, results, completed,
                 level, acquisitions, since_acquire, origin_gets, since_get>>
varsCompile == <<chapters, anchor_sections, compiled>>
varsOut     == <<downloads, book>>
varsMain    == <<pc, varsFetch, varsCompile, varsOut>>

vars == <<varsSplit, varsImg, varsName, varsMain>>

IdleSplit ==
    /\ posts = <<>>
    /\ idx = 0
    /\ out = [posts |-> <<>>, size |-> 0, link_targets |-> <<>>]
    /\ yielded = <<>>
    /\ rpc = "idle"

IdleName ==
    /\ filename = <<>>
    /\ filtered_filename = <<>>
    /\ name_truncated = <<>>
    /\ ext = <<>>
    /\ fpc = "idle"

NoBook == [written |-> FALSE, toc |-> <<>>, spine |-> <<>>, images |-> <<>>,
           authors |-> <<>>]

IdleFetch ==
    /\ site = <<>>
    /\ stamped_urls = <<>>
    /\ tasks = <<>>
    /\ results = <<>>
    /\ completed = <<>>
    /\ level = 0
    /\ acquisitions = 0
    /\ since_acquire = 0
    /\ origin_gets = 0
    /\ since_get = 0

IdleOut ==
    /\ downloads = <<>>
    /\ book = NoBook

IdleMain ==
    /\ pc = "idle"
    /\ IdleFetch
    /\ chapters = <<>>
    /\ anchor_sections = <<>>
    /\ compiled = <<>>
    /\ IdleOut

\* ------------------------------------------------------------------------
\* MappedImage, ImageMap (lines 97-124)
\* ------------------------------------------------------------------------
MappedImage(name, id, extension) ==
    [name |-> name, id |-> id, ext |-> extension]

\* "Images/%s%.*i.%s" % (name, id_width, id, ext)
to_filename(img, id_width) ==
    "Images/" \o img.name \o PadInt(img.id, id_width) \o "." \o img.ext

\* map is the dict as the sequence of its items in insertion order.
ImageMap == [map |-> <<>>, next_icon |-> 0, icon_id_width |-> 1]

InMap(im, url) == \E k \in 1..Len(im.map) : im.map[k].url = url

Lookup(im, url) ==
    im.map[CHOOSE k \in 1..Len(im.map) : im.map[k].url = url].img

add_icon(im, url) ==
    IF InMap(im, url) THEN im
    ELSE [map |-> Append(im.map,
                         [url |-> url,
                          img |-> MappedImage("icon", im.next_icon, url.suffix)]),
          icon_id_width |-> NumDigits(im.next_icon),
          next_icon |-> im.next_icon + 1]

\* get_icon of an url that is not registered calls the missing method
\* self.add and raises; render_posts registers every icon before it renders.
AttributeError == "AttributeError"

get_icon(im, url) ==
    IF InMap(im, url) THEN to_filename(Lookup(im, url), im.icon_id_width)
    ELSE AttributeError

\* ------------------------------------------------------------------------
\* Section (lines 137-148)
\* ------------------------------------------------------------------------
Section == [posts |-> <<>>, size |-> 0, link_targets |-> <<>>]

SectionAppendDropping(section, post) ==
    [posts        |-> <<post>>,
     size         |-> section.size + post.size,
     link_targets |-> <<post.permalink>>]

SectionAppend(section, post) ==
    [posts        |-> Append(section.posts, post),
     size         |-> section.size + post.size,
     link_targets |-> Append(section.link_targets, post.permalink)]

\* ------------------------------------------------------------------------
\* populate_image_map, render_post (lines 226-276)
\* ------------------------------------------------------------------------
RECURSIVE populate_image_map(_, _)
populate_image_map(ps, im) ==
    IF ps = <<>> THEN im
    ELSE populate_image_map(Tail(ps),
            IF Head(ps).icon # NoIcon THEN add_icon(im, Head(ps).icon) ELSE im)

\* The id of the anchor a rendered post starts with.
ReplyAnchor(permalink) ==
    IF permalink.fragment = ""
    THEN "post-" \o permalink.path[Len(permalink.path)]
    ELSE permalink.fragment

\* A RenderedPost.  size is len(rendered.html.encode()), links the hrefs of
\* the <a> elements of the post's content (src_links keeps them as they
\* were scraped), img_src the src of the local icon ("" when the post has
\* none).
render_post(post, im) ==
    [permalink |-> post.permalink,
     anchor    |-> ReplyAnchor(post.permalink),
     author    |-> post.author,
     size      |-> post.size,
     links     |-> post.links,
     src_links |-> post.links,
     icon      |-> post.icon,
     img_src   |-> IF post.icon # NoIcon
                   THEN "../" \o get_icon(im, post.icon)
                   ELSE ""]

\* authors[rendered.author] = True
AddAuthor(as, a) ==
    IF \E k \in 1..Len(as) : as[k] = a THEN as ELSE Append(as, a)

\* ------------------------------------------------------------------------
\* render_posts (lines 279-292)
\* ------------------------------------------------------------------------
NeedsFlushAfter(section, post_size) ==
    section.size > SECTION_SIZE_LIMIT

NeedsFlushNever(section, post_size) ==
    FALSE

NeedsFlush(section, post_size) ==
    section.size + post_size > SECTION_SIZE_LIMIT /\ section.size > 0

\* The chapters the splitter is run on: up to MaxPosts posts of any of the
\* sizes; the i-th is reply i, every third post has no icon, two icons and
\* two authors alternate.
SplitInputs ==
    UNION { [1..n -> PostSizes] : n \in 0..MaxPosts }

MkPosts(sizes) ==
    [i \in 1..Len(sizes) |->
        [permalink |-> ReplyLink(i),
         size      |-> sizes[i],
         author    |-> IF i % 2 = 0 THEN "alice" ELSE "bob",
         icon      |-> IF i % 3 = 0 THEN NoIcon ELSE Icon(i % 2),
         links     |-> <<>>]]

InitSplit ==
    /\ \E sizes \in SplitInputs : posts = MkPosts(sizes)
    /\ idx = 0
    /\ out = Section
    /\ yielded = <<>>
    /\ rpc = "start"
    /\ image_map = ImageMap
    /\ authors = <<>>
    /\ IdleName
    /\ IdleMain

\* populate_image_map(posts, image_map); out = Section()
RenderPostsStart ==
    /\ rpc = "start"
    /\ image_map' = populate_image_map(posts, image_map)
    /\ out' = Section
    /\ rpc' = "loop"
    /\ UNCHANGED <<posts, idx, yielded, authors>>
    /\ UNCHANGED <<varsName, varsMain>>

\* One iteration of the for loop.
RenderPostsStep ==
    /\ rpc = "loop"
    /\ idx < Len(posts)
    /\ LET rendered == render_post(posts[idx + 1], image_map)
           flush    == NeedsFlush(out, rendered.size)
       IN  /\ yielded' = IF flush THEN Append(yielded, out) ELSE yielded
           /\ out' = SectionAppend(IF flush THEN Section ELSE out, rendered)
           /\ authors' = AddAuthor(authors, rendered.author)
    /\ idx' = idx + 1
    /\ UNCHANGED <<posts, rpc, image_map>>
    /\ UNCHANGED <<varsName, varsMain>>

\* The final yield after the loop.
RenderPostsFinish ==
    /\ rpc = "loop"
    /\ idx = Len(posts)
    /\ yielded' = Append(yielded, out)
    /\ rpc' = "done"
    /\ UNCHANGED <<posts, idx, out, image_map, authors>>
    /\ UNCHANGED <<varsName, varsMain>>

NextSplit ==
    \/ RenderPostsStart
    \/ RenderPostsStep
    \/ RenderPostsFinish

\* ------------------------------------------------------------------------
\* make_filename_valid_for_epub3 (lines 169-218)
\* ------------------------------------------------------------------------
\* len(chr(c).encode("utf-8"))
CharBytes(c) ==
    IF c < 128 THEN 1 ELSE IF c < 2048 THEN 2 ELSE IF c < 65536 THEN 3 ELSE 4

\* len(s.encode("utf-8")): one byte per character and one more for each
\* threshold of CharBytes the character reaches.
Utf8Len(s) ==
    Len(s) + Cardinality({i \in 1..Len(s) : CharBytes(s[i]) >= 2})
           + Cardinality({i \in 1..Len(s) : CharBytes(s[i]) >= 3})
           + Cardinality({i \in 1..Len(s) : CharBytes(s[i]) >= 4})

CharAllowed(c) ==
    /\ c \notin FILENAME_BANNED_CHARS
    /\ \A r \in 1..Len(FILENAME_BANNED_CHAR_RANGES) :
          ~ (c >= FILENAME_BANNED_CHAR_RANGES[r][1]
             /\ c <= FILENAME_BANNED_CHAR_RANGES[r][2])

\* The first for loop: keep the allowed characters, in order.
FilterChars(s) == SelectSeq(s, CharAllowed)

\* s[:-1]
DropLast(s) == IF s = <<>> THEN <<>> ELSE SubSeq(s, 1, Len(s) - 1)

\* Position of the last "." of s, 0 if it has none.
LastDot(s) ==
    LET dots == {i \in 1..Len(s) : s[i] = DOT}
    IN  IF dots = {} THEN 0
        ELSE CHOOSE i \in dots : \A j \in dots : j <= i

\* s.split(".")[-1]
SplitExt(s) == SubSeq(s, LastDot(s) + 1, Len(s))

\* ".".join(s.split(".")[:-1])
SplitName(s) == SubSeq(s, 1, LastDot(s) - 1)

\* "%s.%s" % (name, ext)
FullName(name, e) == name \o <<DOT>> \o e

ExtTooLongStrict(e) == Utf8Len(e) >= MAX_FILENAME_BYTES

ExtTooLong(e) == Utf8Len(e) > MAX_FILENAME_BYTES

\* The file names the sanitizer is run on: `n` times the character c,
\* a separator, `m` times the character d, a tail.
Rep(c, n) == [i \in 1..n |-> c]

NameChars == {97, 233, 47}          \* "a", e-acute (2 bytes), "/" (banned)
ExtChars  == {97, 8364}             \* "a", euro sign (3 bytes)
NameLens  == {0, 1, MaxNameLen}
ExtLens   == {0, 1, 84, 85, 86, 254, 255, 256}
Seps      == {<<>>, <<DOT>>, <<DOT, 97, DOT>>}
Tails     == {<<>>, <<DOT, 31, DOT>>}

NameInputs ==
    { Rep(c, n) \o sep \o Rep(d, m) \o tail :
        c \in NameChars, n \in NameLens, sep \in Seps,
        d \in ExtChars, m \in ExtLens, tail \in Tails }

InitName ==
    /\ filename \in NameInputs
    /\ filtered_filename = <<>>
    /\ name_truncated = <<>>
    /\ ext = <<>>
    /\ fpc = "filter"
    /\ IdleSplit
    /\ image_map = ImageMap
    /\ authors = <<>>
    /\ IdleMain

\* Lines 170-185: the filtering loop.
FilterStep ==
    /\ fpc = "filter"
    /\ filtered_filename' = FilterChars(filename)
    /\ fpc' = "strip"
    /\ UNCHANGED <<filename, name_truncated, ext>>
    /\ UNCHANGED <<varsSplit, varsImg, varsMain>>

\* Lines 188-189: one iteration of the loop that strips a trailing ".".
StripStep ==
    /\ fpc = "strip"
    /\ Len(filtered_filename) > 0
    /\ filtered_filename[Len(filtered_filename)] = DOT
    /\ filtered_filename' = DropLast(filtered_filename)
    /\ UNCHANGED <<filename, name_truncated, ext, fpc>>
    /\ UNCHANGED <<varsSplit, varsImg, varsMain>>

\* Lines 188-218 after the stripping loop, up to the truncation loop.
CheckStep ==
    /\ fpc = "strip"
    /\ ~ (Len(filtered_filename) > 0
          /\ filtered_filename[Len(filtered_filename)] = DOT)
    /\ IF Len(filtered_filename) = 0
       THEN /\ fpc' = "raised_invalid"
            /\ UNCHANGED <<name_truncated, ext>>
       ELSE IF Utf8Len(filtered_filename) <= MAX_FILENAME_BYTES
       THEN /\ fpc' = "returned"
            /\ UNCHANGED <<name_truncated, ext>>
       ELSE IF ExtTooLong(SplitExt(filtered_filename))
       THEN /\ fpc' = "raised_ext"
            /\ ext' = SplitExt(filtered_filename)
            /\ UNCHANGED name_truncated
       ELSE /\ fpc' = "truncate"
            /\ ext' = SplitExt(filtered_filename)
            /\ name_truncated' = DropLast(SplitName(filtered_filename))
    /\ UNCHANGED <<filename, filtered_filename>>
    /\ UNCHANGED <<varsSplit, varsImg, varsMain>>

\* Lines 215-217: one iteration of the truncation loop.
TruncateStep ==
    /\ fpc = "truncate"
    /\ Utf8Len(FullName(name_truncated, ext)) > MAX_FILENAME_BYTES
    /\ name_truncated' = DropLast(name_truncated)
    /\ UNCHANGED <<filename, filtered_filename, ext, fpc>>
    /\ UNCHANGED <<varsSplit, varsImg, varsMain>>

\* Line 218: return full_name_truncated.
TruncateReturn ==
    /\ fpc = "truncate"
    /\ Utf8Len(FullName(name_truncated, ext)) <= MAX_FILENAME_BYTES
    /\ fpc' = "returned"
    /\ UNCHANGED <<filename, filtered_filename, name_truncated, ext>>
    /\ UNCHANGED <<varsSplit, varsImg, varsMain>>

NextName ==
    \/ FilterStep
    \/ StripStep
    \/ CheckStep
    \/ TruncateStep
    \/ TruncateReturn

SpecName == InitName /\ [][NextName]_vars

\* The function runs to its end unless it is stuck: every step that can be
\* taken eventually is.
FairSpecName == SpecName /\ WF_vars(NextName)

\* C10: make_filename_valid_for_epub3 terminates for every input: it
\* returns a name or raises one of its two errors.
C10_Terminates ==
    <>(fpc \in {"returned", "raised_invalid", "raised_ext"})

SpecSplit == InitSplit /\ [][NextSplit]_vars

\* ------------------------------------------------------------------------
\* Claims about the splitter
\* ------------------------------------------------------------------------

\* C1: concatenating the posts of the sections render_posts yields, in
\* section order, gives exactly the original post sequence (also for the
\* empty chapter).
C1_ConcatReconstructs ==
    rpc = "done" => Permalinks(ConcatPosts(yielded)) = Permalinks(posts)

C1_Witness ==
    /\ rpc = "done"
    /\ Len(yielded) >= 2
    /\ Len(posts) >= 3
    /\ Permalinks(ConcatPosts(yielded)) = Permalinks(posts)

\* C2: every section produced by the splitter has size <= 200000 or holds
\* exactly one post.
C2_SizeBound ==
    \A k \in 1..Len(yielded) :
        \/ yielded[k].size <= SECTION_SIZE_LIMIT
        \/ Len(yielded[k].posts) = 1

C2_Witness ==
    /\ rpc = "done"
    /\ \E k \in 1..Len(yielded) :
          yielded[k].size > SECTION_SIZE_LIMIT /\ Len(yielded[k].posts) = 1
    /\ \E k \in 1..Len(yielded) :
          yielded[k].size = SECTION_SIZE_LIMIT /\ Len(yielded[k].posts) = 2

\* The case of C8: the chapter's posts total 250,000 bytes and none exceeds
\* 200,000 bytes.
C8_Case ==
    /\ rpc = "done"
    /\ SumSizes(posts) = 250000
    /\ \A i \in 1..Len(posts) : posts[i].size <= SECTION_SIZE_LIMIT

\* C8 (as stated): such a chapter splits into exactly 2 sections, neither
\* exceeding 200,000 bytes.
C8_ExactlyTwo ==
    C8_Case =>
        /\ Len(yielded) = 2
        /\ \A k \in 1..Len(yielded) : yielded[k].size <= SECTION_SIZE_LIMIT

\* C8 (amended): such a chapter splits into 2 or 3 sections, none exceeding
\* 200,000 bytes.
C8_TwoOrThree ==
    C8_Case =>
        /\ Len(yielded) \in {2, 3}
        /\ \A k \in 1..Len(yielded) : yielded[k].size <= SECTION_SIZE_LIMIT

C8_Witness ==
    /\ C8_Case
    /\ Len(yielded) = 3

\* ------------------------------------------------------------------------
\* make_filename_valid_for_epub3 as a function (lines 169-218)
\* ------------------------------------------------------------------------
RECURSIVE StripDots(_)
StripDots(s) ==
    IF Len(s) > 0 /\ s[Len(s)] = DOT THEN StripDots(DropLast(s)) ELSE s

\* The truncation loop: the longest prefix of name that fits; the loop does
\* not end when not even the empty prefix fits.
Truncate(name, e) ==
    LET fits == {k \in 0..Len(name) :
                    Utf8Len(FullName(SubSeq(name, 1, k), e)) <= MAX_FILENAME_BYTES}
    IN  IF fits = {} THEN [status |-> "diverges", name |-> <<>>]
        ELSE [status |-> "ok",
              name |-> FullName(SubSeq(name, 1,
                          CHOOSE k \in fits : \A m \in fits : m <= k), e)]

make_filename_valid_for_epub3(fn) ==
    LET f == StripDots(FilterChars(fn))
    IN  IF Len(f) = 0 THEN [status |-> "raised_invalid", name |-> <<>>]
        ELSE IF Utf8Len(f) <= MAX_FILENAME_BYTES THEN [status |-> "ok", name |-> f]
        ELSE IF ExtTooLong(SplitExt(f)) THEN [status |-> "raised_ext", name |-> <<>>]
        ELSE Truncate(DropLast(SplitName(f)), SplitExt(f))

\* ------------------------------------------------------------------------
\* compile_chapters (lines 311-378)
\* ------------------------------------------------------------------------
\* "%.*i" % (width, n), as characters.
RECURSIVE DigitCodes(_)
DigitCodes(n) ==
    IF n < 10 THEN <<48 + n>> ELSE Append(DigitCodes(n \div 10), 48 + (n % 10))

PadCodes(n, width) ==
    Rep(48, width - NumDigits(n)) \o DigitCodes(n)

TEXT_DIR    == <<84, 101, 120, 116, 47>>            \* "Text/"
XHTML_EXT   == <<46, 120, 104, 116, 109, 108>>      \* ".xhtml"

\* "%.*i-%.*i (%s).xhtml" % (chapter_digits, i + 1, section_digits, j, title)
\* for the 1-based chapter position i1 = i + 1 and the 0-based section j.
FileNameFormat(chapter_digits, i1, section_digits, j, title) ==
    PadCodes(i1, chapter_digits) \o <<45>> \o PadCodes(j, section_digits)
        \o <<32, 40>> \o title \o <<41>> \o XHTML_EXT

SanitizedFileName(chs, i1, j) ==
    make_filename_valid_for_epub3(
        FileNameFormat(NumDigits(Len(chs)), i1,
                       NumDigits(Len(chs[i1].sections)), j, chs[i1].title))

\* file_name of section j (0-based) of chapter i1 (1-based).  The format
\* always ends in ").xhtml" and starts with a digit, so the sanitizer
\* neither raises nor loops here.
FileName(chs, i1, j) ==
    TEXT_DIR \o SanitizedFileName(chs, i1, j).name

Range(f) == {f[k] : k \in DOMAIN f}

\* The (chapter, section) positions, both 1-based.
SectionsOf(chs) ==
    UNION { {<<i, j>> : j \in 1..Len(chs[i].sections)} : i \in 1..Len(chs) }

\* q is visited no later than r by the nested loops.
NoLater(q, r) == q[1] < r[1] \/ (q[1] = r[1] /\ q[2] <= r[2])

\* Lines 317-332: the dict the first pair of loops builds; a later
\* assignment to the same permalink replaces an earlier one.
BuildAnchorSections(chs) ==
    LET holders(p) == {q \in SectionsOf(chs) :
                          p \in Range(chs[q[1]].sections[q[2]].link_targets)}
        targets    == UNION {Range(chs[q[1]].sections[q[2]].link_targets) :
                                q \in SectionsOf(chs)}
        last(p)    == CHOOSE q \in holders(p) : \A r \in holders(p) : NoLater(r, q)
    IN  [p \in targets |-> FileName(chs, last(p)[1], last(p)[2] - 1)]

\* REPLY_RE.match(raw_url): the text starts with "/replies/" or "/posts/".
ReplyReMatch(raw_url) ==
    /\ raw_url.scheme = ""
    /\ raw_url.netloc = ""
    /\ raw_url.rooted
    /\ Len(raw_url.path) >= 2
    /\ raw_url.path[1] \in REPLY_RE_HEADS

\* ParseResult.geturl(): a path that does not start with "/" gets one when
\* the URL has a netloc.
GetUrl(url) ==
    IF url.netloc # "" /\ ~ url.rooted /\ (url.path # <<>> \/ url.file # <<>>)
    THEN [url EXCEPT !.rooted = TRUE]
    ELSE url

\* Lines 340-347: the new value of a["href"].
RewriteHrefInternalOnly(raw_url, anchors) ==
    IF ReplyReMatch(raw_url) /\ raw_url \in DOMAIN anchors
    THEN GetUrl([raw_url EXCEPT !.path = <<>>, !.rooted = FALSE,
                                !.file = anchors[raw_url]])
    ELSE raw_url

RewriteHref(raw_url, anchors) ==
    IF ReplyReMatch(raw_url) /\ raw_url \in DOMAIN anchors
    THEN GetUrl([raw_url EXCEPT !.path = <<>>, !.rooted = FALSE,
                                !.file = anchors[raw_url]])
    ELSE IF raw_url.netloc = ""
    THEN GetUrl([raw_url EXCEPT !.scheme = "https", !.netloc = GLOWFIC_NETLOC])
    ELSE raw_url

\* Lines 335-347: every <a href> of every section, rewritten in place.
ReplaceLinksIn(chs, anchors) ==
    [i \in 1..Len(chs) |->
        [chs[i] EXCEPT !.sections =
            [j \in 1..Len(chs[i].sections) |->
                [chs[i].sections[j] EXCEPT !.posts =
                    [k \in 1..Len(chs[i].sections[j].posts) |->
                        [chs[i].sections[j].posts[k] EXCEPT !.links =
                            [l \in 1..Len(chs[i].sections[j].posts[k].links) |->
                                RewriteHref(chs[i].sections[j].posts[k].links[l],
                                            anchors)]]]]]]]

\* Lines 350-378: one list of EpubHtml per chapter.
EpubHtml(title, file_name, section) ==
    [title |-> title, file_name |-> file_name, content |-> section.posts]

CompiledChapters(chs) ==
    [i \in 1..Len(chs) |->
        [j \in 1..Len(chs[i].sections) |->
            EpubHtml(chs[i].title, FileName(chs, i, j - 1), chs[i].sections[j])]]

MapPermalinks ==
    /\ pc = "compile_map"
    /\ anchor_sections' = BuildAnchorSections(chapters)
    /\ pc' = "compile_replace"
    /\ UNCHANGED <<chapters, compiled>>
    /\ UNCHANGED <<varsSplit, varsImg, varsName, varsFetch, varsOut>>

ReplaceLinks ==
    /\ pc = "compile_replace"
    /\ chapters' = ReplaceLinksIn(chapters, anchor_sections)
    /\ pc' = "compile_yield"
    /\ UNCHANGED <<anchor_sections, compiled>>
    /\ UNCHANGED <<varsSplit, varsImg, varsName, varsFetch, varsOut>>

YieldChapters ==
    /\ pc = "compile_yield"
    /\ compiled' = CompiledChapters(chapters)
    /\ pc' = "images"
    /\ UNCHANGED <<chapters, anchor_sections>>
    /\ UNCHANGED <<varsSplit, varsImg, varsName, varsFetch, varsOut>>

\* --- compile_chapters on its own ----------------------------------------
TITLES == << <<84>>,                    \* "T"
             <<65, 47, 66>>,            \* "A/B"
             <<79, 110, 101, 46>> >>    \* "One."

TitleOf(c) == TITLES[((c - 1) % Len(TITLES)) + 1]

\* The post at position k (1-based) of chapter c: the first is the thread's
\* opening post, the others are replies.
PermalinkOf(c, k) == IF k = 1 THEN PostLink(c) ELSE ReplyLink(100 * c + k)

LinkChoices ==
    { PostLink(1), PostLink(2), ReplyLink(102), ReplyLink(202), ReplyLink(999),
      Href("", "", TRUE, <<"replies", "102">>, ""),
      Href("", "", TRUE, <<"users", "5">>, ""),
      Href("", "", FALSE, <<"faq">>, "top"),
      Href("", "", FALSE, <<>>, "reply-102"),
      Href("https", "example.com", TRUE, <<"x">>, "frag"),
      Href("http", "example.com", FALSE, <<>>, ""),
      Href("mailto", "", FALSE, <<"author@example.com">>, ""),
      Href("https", GLOWFIC_NETLOC, TRUE, <<"posts", "1">>, "") }

\* A chapter of n one-post sections (n = 0: the single empty section);
\* the post at position `at` carries the link.
LinkChapter(c, n, at, link) ==
    [title |-> TitleOf(c),
     sections |->
        IF n = 0 THEN <<Section>>
        ELSE [j \in 1..n |->
                SectionAppend(Section,
                    render_post([permalink |-> PermalinkOf(c, j),
                                 size      |-> 120000,
                                 author    |-> "alice",
                                 icon      |-> NoIcon,
                                 links     |-> IF at = <<c, j>> THEN <<link>>
                                               ELSE <<>>],
                                ImageMap))]]

InitLink ==
    /\ \E n \in 1..MaxLinkChapters :
         \E secs \in [1..n -> 0..MaxSections] :
           \E at \in (1..n) \X (1..MaxSections) :
             \E link \in LinkChoices :
                /\ at[2] <= secs[at[1]]
                /\ chapters = [c \in 1..n |-> LinkChapter(c, secs[c], at, link)]
    /\ pc = "compile_map"
    /\ anchor_sections = <<>>
    /\ compiled = <<>>
    /\ IdleFetch
    /\ IdleOut
    /\ IdleSplit
    /\ IdleName
    /\ image_map = ImageMap
    /\ authors = <<>>

NextLink ==
    \/ MapPermalinks
    \/ ReplaceLinks
    \/ YieldChapters

SpecLink == InitLink /\ [][NextLink]_vars

\* ------------------------------------------------------------------------
\* download_chapter (lines 295-308) and the rest of main (lines 485-543)
\* ------------------------------------------------------------------------
\* list(render_posts(posts, image_map, authors)): the loop of
\* RenderPostsStep run to its end, then the final yield.
RECURSIVE RenderLoop(_, _, _)
RenderLoop(ps, im, st) ==
    IF ps = <<>>
    THEN [sections |-> Append(st.yielded, st.out), authors |-> st.authors]
    ELSE LET rendered == render_post(Head(ps), im)
             flush    == NeedsFlush(st.out, rendered.size)
         IN  RenderLoop(Tail(ps), im,
                [yielded |-> IF flush THEN Append(st.yielded, st.out)
                             ELSE st.yielded,
                 out     |-> SectionAppend(IF flush THEN Section ELSE st.out,
                                           rendered),
                 authors |-> AddAuthor(st.authors, rendered.author)])

render_posts(ps, im, as) ==
    LET populated == populate_image_map(ps, im)
        looped    == RenderLoop(ps, populated,
                                [yielded |-> <<>>, out |-> Section, authors |-> as])
    IN  [sections |-> looped.sections, image_map |-> populated,
         authors |-> looped.authors]

\* --- the origin -----------------------------------------------------------
\* The icons of a chapter's posts are a run of consecutive icons.
IconRuns ==
    { [lo |-> 1, n |-> 0], [lo |-> 1, n |-> 2], [lo |-> 2, n |-> MaxIcons - 1] }

\* Chapter c of a site of `count` chapters: its first post links to the
\* opening post of the next chapter.
SiteChapter(c, count, run) ==
    [title |-> TitleOf(c),
     posts |-> [k \in 1..run.n |->
                  [permalink |-> PermalinkOf(c, k),
                   size      |-> IF k % 2 = 1 THEN 120000 ELSE 60000,
                   author    |-> IF k % 3 = 0 THEN "None"
                                 ELSE IF k % 2 = 1 THEN "alice" ELSE "bob",
                   icon      |-> Icon(run.lo + k - 1),
                   links     |-> IF k = 1 THEN <<PostLink((c % count) + 1)>>
                                 ELSE <<>>]]]

Sites ==
    { [mode |-> m, chapters |-> [c \in 1..n |-> SiteChapter(c, n, runs[c])]] :
        m \in {"posts", "boards", "other"},
        n \in 0..MaxChapters,
        runs \in [1..MaxChapters -> IconRuns] }

NoResult == [title |-> <<>>, sections |-> <<>>]

InitRun ==
    /\ site \in {s \in Sites : s.mode = "posts" => Len(s.chapters) = 1}
    /\ pc = "discover"
    /\ stamped_urls = <<>>
    /\ tasks = <<>>
    /\ results = <<>>
    /\ completed = <<>>
    /\ level = 0
    /\ acquisitions = 0
    /\ since_acquire = TicksPerSecond
    /\ origin_gets = 0
    /\ since_get = TicksPerSecond
    /\ chapters = <<>>
    /\ anchor_sections = <<>>
    /\ compiled = <<>>
    /\ downloads = <<>>
    /\ book = NoBook
    /\ image_map = ImageMap
    /\ authors = <<>>
    /\ IdleSplit
    /\ IdleName

\* --- the limiter: aiolimiter.AsyncLimiter(1, 1) (line 489) ----------------
\* A leaky bucket of capacity 1 that drains in 1 second: acquire() returns
\* once the bucket is empty and fills it.
LimiterHasCapacity(lvl) == lvl = 0
LimiterFull == TicksPerSecond

Capped(t) == IF t < TicksPerSecond THEN t + 1 ELSE TicksPerSecond

\* One tick of the clock; it is followed as long as a request to the origin
\* is still to come.
Tick ==
    /\ \/ pc = "discover_wait"
       \/ pc = "gather" /\ \E i \in DOMAIN tasks : tasks[i] = "acquire"
    /\ level > 0 \/ since_get < TicksPerSecond \/ since_acquire < TicksPerSecond
    /\ level' = IF level > 0 THEN level - 1 ELSE 0
    /\ since_acquire' = Capped(since_acquire)
    /\ since_get' = Capped(since_get)
    /\ UNCHANGED <<pc, site, stamped_urls, tasks, results, completed,
                   acquisitions, origin_gets>>
    /\ UNCHANGED <<varsSplit, varsImg, varsName, varsCompile, varsOut>>

\* --- get_post_urls_and_title (lines 403-425) -----------------------------
\* Lines 406-409 / 416-418: await limiter.acquire(), then session.get.  An
\* url that names neither a post nor a board returns None, and main fails
\* on spec.stamped_urls.
Discover ==
    /\ pc = "discover"
    /\ IF site.mode = "other"
       THEN /\ pc' = "aborted"
            /\ UNCHANGED <<level, acquisitions, since_acquire, origin_gets,
                           since_get>>
       ELSE /\ LimiterHasCapacity(level)
            /\ level' = LimiterFull
            /\ acquisitions' = acquisitions + 1
            /\ since_acquire' = 0
            /\ origin_gets' = origin_gets + 1
            /\ since_get' = 0
            /\ pc' = "discover_wait"
    /\ UNCHANGED <<site, stamped_urls, tasks, results, completed>>
    /\ UNCHANGED <<varsSplit, varsImg, varsName, varsCompile, varsOut>>

\* Lines 410-415 / 419-425 and main lines 494-509: the response arrives;
\* main launches one download_chapter per stamped url and awaits them.
\* BookSpec raises on an empty board (max of an empty sequence).
DiscoverDone ==
    /\ pc = "discover_wait"
    /\ \E ok \in BOOLEAN :
         IF ok /\ Len(site.chapters) > 0
         THEN /\ stamped_urls' = [i \in 1..Len(site.chapters) |-> i]
              /\ tasks' = [i \in 1..Len(site.chapters) |-> "acquire"]
              /\ results' = [i \in 1..Len(site.chapters) |-> NoResult]
              /\ pc' = "gather"
         ELSE /\ pc' = "aborted"
              /\ UNCHANGED <<stamped_urls, tasks, results>>
    /\ UNCHANGED <<site, completed, level, acquisitions, since_acquire,
                   origin_gets, since_get>>
    /\ UNCHANGED <<varsSplit, varsImg, varsName, varsCompile, varsOut>>

\* --- download_chapter (lines 295-308) ------------------------------------
\* Line 302: what download_chapter waits for before its GET.
GetWithoutAcquire(lvl) == TRUE

MayGet(lvl) == LimiterHasCapacity(lvl)

\* Lines 302-303: limiter.acquire() returns and session.get is called.
ChapterGet(i) ==
    /\ pc = "gather"
    /\ i \in DOMAIN tasks
    /\ tasks[i] = "acquire"
    /\ MayGet(level)
    /\ level' = LimiterFull
    /\ acquisitions' = acquisitions + 1
    /\ since_acquire' = 0
    /\ origin_gets' = origin_gets + 1
    /\ since_get' = 0
    /\ tasks' = [tasks EXCEPT ![i] = "get"]
    /\ UNCHANGED <<pc, site, stamped_urls, results, completed>>
    /\ UNCHANGED <<varsSplit, varsImg, varsName, varsCompile, varsOut>>

\* Line 303: the response head arrives.
ChapterResponse(i) ==
    /\ pc = "gather"
    /\ i \in DOMAIN tasks
    /\ tasks[i] = "get"
    /\ tasks' = [tasks EXCEPT ![i] = "text"]
    /\ UNCHANGED <<pc, site, stamped_urls, results, completed, level,
                   acquisitions, since_acquire, origin_gets, since_get>>
    /\ UNCHANGED <<varsSplit, varsImg, varsName, varsCompile, varsOut>>

\* Lines 304-308: the body arrives; the page is parsed, validated and
\* rendered without further suspension.  The page is the chapter, a page
\* with an error banner, or a page with neither title nor banner.
ChapterBody(i) ==
    /\ pc = "gather"
    /\ i \in DOMAIN tasks
    /\ tasks[i] = "text"
    /\ \E page \in {"chapter", "banner", "neither"} :
         IF page = "chapter"
         THEN LET ch == site.chapters[stamped_urls[i]]
                  r  == render_posts(ch.posts, image_map, authors)
              IN  /\ results' = [results EXCEPT ![i] =
                                    [title |-> ch.title, sections |-> r.sections]]
                  /\ image_map' = r.image_map
                  /\ authors' = r.authors
                  /\ tasks' = [tasks EXCEPT ![i] = "done"]
         ELSE /\ tasks' = [tasks EXCEPT ![i] =
                              IF page = "banner" THEN "raised_remote"
                              ELSE "raised_unknown"]
              /\ UNCHANGED <<results, image_map, authors>>
    /\ completed' = Append(completed, i)
    /\ UNCHANGED <<pc, site, stamped_urls, level, acquisitions, since_acquire,
                   origin_gets, since_get>>
    /\ UNCHANGED <<varsSplit, varsName, varsCompile, varsOut>>

\* --- main, lines 502-510: tqdm.gather ------------------------------------
\* The results in the order of the awaitables.
GatherCompletionOrder(res, order) == [k \in 1..Len(order) |-> res[order[k]]]

Gather(res, order) == [i \in 1..Len(res) |-> res[i]]

TaskRaised(i) == tasks[i] \in {"raised_remote", "raised_unknown"}

GatherReturn ==
    /\ pc = "gather"
    /\ \A i \in 1..Len(tasks) : tasks[i] = "done"
    /\ chapters' = Gather(results, completed)
    /\ pc' = "compile_map"
    /\ UNCHANGED <<anchor_sections, compiled>>
    /\ UNCHANGED <<varsSplit, varsImg, varsName, varsFetch, varsOut>>

\* The exception of a download_chapter leaves main; the other coroutines
\* are cancelled.
GatherRaise ==
    /\ pc = "gather"
    /\ \E i \in 1..Len(tasks) : TaskRaised(i)
    /\ pc' = "aborted"
    /\ UNCHANGED <<varsSplit, varsImg, varsName, varsFetch, varsCompile, varsOut>>

\* --- download_image, download_images (lines 428-451) ---------------------
\* Lines 431-442: what a download_image returns or raises: the item, None
\* after a caught network error or timeout, or the KeyError of a response
\* without Content-Type, which nothing catches.
DownloadResult(outcome) ==
    IF outcome \in {"ClientError", "TimeoutError"} THEN "None"
    ELSE IF outcome = "ok" THEN "item"
    ELSE outcome

Failed(ds) == {k \in 1..Len(ds) : ds[k].result # "item"}

\* The next download_image finishes.  Every file name was computed when the
\* coroutines were created, with the final icon_id_width.
DownloadImage ==
    /\ pc = "images"
    /\ Len(downloads) < Len(image_map.map)
    /\ \E outcome \in {"ok", "ClientError", "TimeoutError", "KeyError"} :
         LET k == Len(downloads) + 1
         IN  /\ outcome # "ok" => Cardinality(Failed(downloads)) < MaxImageFailures
             /\ downloads' = Append(downloads,
                    [url       |-> image_map.map[k].url,
                     file_name |-> to_filename(image_map.map[k].img,
                                               image_map.icon_id_width),
                     result    |-> DownloadResult(outcome)])
             /\ pc' = IF outcome = "KeyError" THEN "aborted" ELSE pc
    /\ UNCHANGED book
    /\ UNCHANGED <<varsSplit, varsImg, varsName, varsFetch, varsCompile>>

\* [image for image in await tqdm.gather(*in_flight) if image is not None]
ImagesUnfiltered(ds) == [k \in 1..Len(ds) |-> ds[k].file_name]

Images(ds) ==
    LET ok == SelectSeq(ds, LAMBDA d : d.result # "None")
    IN  [k \in 1..Len(ok) |-> ok[k].file_name]

RECURSIVE Flatten(_)
Flatten(ss) == IF ss = <<>> THEN <<>> ELSE Head(ss) \o Flatten(Tail(ss))

NAV == <<110, 97, 118>>     \* "nav"

\* Lines 527-543.
WriteEpub ==
    /\ pc = "images"
    /\ Len(downloads) = Len(image_map.map)
    /\ book' = [written |-> TRUE,
                toc     |-> [i \in 1..Len(compiled) |-> compiled[i][1].file_name],
                spine   |-> <<NAV>> \o
                            Flatten([i \in 1..Len(compiled) |->
                                [j \in 1..Len(compiled[i]) |->
                                    compiled[i][j].file_name]]),
                images  |-> Images(downloads),
                authors |-> authors]
    /\ pc' = "done"
    /\ UNCHANGED downloads
    /\ UNCHANGED <<varsSplit, varsImg, varsName, varsFetch, varsCompile>>

NextRun ==
    \/ Tick
    \/ Discover
    \/ DiscoverDone
    \/ \E i \in 1..MaxChapters : ChapterGet(i)
    \/ \E i \in 1..MaxChapters : ChapterResponse(i)
    \/ \E i \in 1..MaxChapters : ChapterBody(i)
    \/ GatherReturn
    \/ GatherRaise
    \/ MapPermalinks
    \/ ReplaceLinks
    \/ YieldChapters
    \/ DownloadImage
    \/ WriteEpub

SpecRun == InitRun /\ [][NextRun]_vars

\* Every (scraped href, href in the compiled book) pair.
LinkPairs ==
    UNION { UNION { UNION {
        { [raw |-> compiled[i][j].content[k].src_links[l],
           now |-> compiled[i][j].content[k].links[l]] :
            l \in 1..Len(compiled[i][j].content[k].links) } :
          k \in 1..Len(compiled[i][j].content) } :
        j \in 1..Len(compiled[i]) } :
      i \in 1..Len(compiled) }

\* A post of the book has this href as its permalink.
Discovered(raw) ==
    \E i \in 1..Len(compiled) : \E j \in 1..Len(compiled[i]) :
        \E k \in 1..Len(compiled[i][j].content) :
            compiled[i][j].content[k].permalink = raw

\* The file of the section holding the post with this permalink.
FileOf(raw) ==
    LET q == CHOOSE q \in SectionsOf(chapters) :
                \E k \in 1..Len(compiled[q[1]][q[2]].content) :
                    compiled[q[1]][q[2]].content[k].permalink = raw
    IN  compiled[q[1]][q[2]].file_name

C3_InternalCase(p) == ReplyReMatch(p.raw) /\ Discovered(p.raw)
C3_RelativeCase(p) == p.raw.netloc = "" /\ ~ Discovered(p.raw)
C3_ForeignCase(p)  == p.raw.netloc \notin {"", GLOWFIC_NETLOC}

\* C3: once compile_chapters has run, a reply-pattern link whose target is
\* in the AnchorIndex points at the mapped output file and keeps its
\* fragment; a link without host and without discovered target is an
\* absolute https://glowfic.com link with the same path and fragment; a
\* link to another host is unchanged.
C3_LinkRewriting ==
    pc = "images" =>
        \A p \in LinkPairs :
            /\ C3_InternalCase(p) =>
                  /\ p.now.file = FileOf(p.raw)
                  /\ p.now.file = anchor_sections[p.raw]
                  /\ p.now.fragment = p.raw.fragment
                  /\ p.now.netloc = "" /\ p.now.scheme = "" /\ p.now.path = <<>>
            /\ C3_RelativeCase(p) =>
                  /\ p.now.scheme = "https"
                  /\ p.now.netloc = GLOWFIC_NETLOC
                  /\ p.now.path = p.raw.path
                  /\ p.now.fragment = p.raw.fragment
                  /\ p.now.file = <<>>
                  /\ p.now.rooted = (p.raw.rooted \/ p.raw.path # <<>>)
            /\ C3_ForeignCase(p) => p.now = p.raw

C3_Witness ==
    /\ pc = "images"
    /\ \E p \in LinkPairs :
          /\ C3_InternalCase(p)
          /\ p.raw.fragment # ""
          /\ p.now.file = FileOf(p.raw)
          /\ p.now.fragment = p.raw.fragment

C3_WitnessRelative ==
    /\ pc = "images"
    /\ \E p \in LinkPairs : C3_RelativeCase(p) /\ ReplyReMatch(p.raw)
                            /\ p.now.netloc = GLOWFIC_NETLOC

C3_WitnessForeign ==
    /\ pc = "images"
    /\ \E p \in LinkPairs : C3_ForeignCase(p) /\ p.now = p.raw

\* ------------------------------------------------------------------------
\* Claims about the run
\* ------------------------------------------------------------------------
AllPosts(chs) ==
    UNION { Range(ConcatPosts(chs[i].sections)) : i \in 1..Len(chs) }

\* C4: the path get_icon gives for a registered image is the same at any
\* two points of a run, whatever is registered in between.
C4_StablePath ==
    [][\A k \in 1..Len(image_map.map) :
          get_icon(image_map', image_map.map[k].url)
              = get_icon(image_map, image_map.map[k].url)]_vars

\* C9: every local image reference render_post emitted names the path
\* under which download_images fetches and embeds that image.
C9_RenderedPathIsAssetPath ==
    \A k \in 1..Len(downloads) :
        \A post \in AllPosts(chapters) :
            post.icon = downloads[k].url =>
                post.img_src = "../" \o downloads[k].file_name

\* The file name compile_chapters gives section j (0-based) of the chapter
\* at position i when that chapter is the one discovered i-th.
DiscoveryFileName(i, j) ==
    TEXT_DIR \o make_filename_valid_for_epub3(
        FileNameFormat(NumDigits(Len(stamped_urls)), i,
                       NumDigits(Len(compiled[i])), j,
                       site.chapters[stamped_urls[i]].title)).name

\* C5: whatever the completion order, the chapter list handed to
\* compile_chapters has one result per location, in discovery order, and so
\* have the chapter numbers of the file names, the table of contents and the
\* spine.
C5_DiscoveryOrder ==
    /\ chapters # <<>> =>
          /\ Len(chapters) = Len(stamped_urls)
          /\ \A i \in 1..Len(chapters) :
                /\ chapters[i].title = site.chapters[stamped_urls[i]].title
                /\ Permalinks(ConcatPosts(chapters[i].sections))
                      = Permalinks(site.chapters[stamped_urls[i]].posts)
    /\ book.written =>
          /\ Len(book.toc) = Len(stamped_urls)
          /\ \A i \in 1..Len(book.toc) : book.toc[i] = DiscoveryFileName(i, 0)
          /\ book.spine = <<NAV>> \o
                Flatten([i \in 1..Len(compiled) |->
                    [j \in 1..Len(compiled[i]) |-> DiscoveryFileName(i, j - 1)]])

C5_Witness ==
    /\ book.written
    /\ Len(stamped_urls) >= 2
    /\ completed[1] # 1
    /\ book.toc[1] = DiscoveryFileName(1, 0)

C7_ErrorPolicy ==
    /\ (\E i \in 1..Len(tasks) : TaskRaised(i)) =>
          /\ ~ book.written
          /\ pc \in {"gather", "aborted"}
    /\ pc = "aborted" =>
          \/ tasks = <<>>
          \/ \E i \in 1..Len(tasks) : TaskRaised(i)
          \/ \E k \in 1..Len(downloads) : downloads[k].result = "KeyError"
    /\ pc = "done" =>
          /\ book.written
          /\ Len(downloads) = Len(image_map.map)
          /\ \A k \in 1..Len(downloads) :
                (downloads[k].result = "item")
                    <=> (downloads[k].file_name \in Range(book.images))

C7_Witness ==
    /\ pc = "done"
    /\ book.written
    /\ \E k \in 1..Len(downloads) :
          /\ downloads[k].result = "None"
          /\ downloads[k].file_name \notin Range(book.images)
    /\ \E k \in 1..Len(downloads) :
          /\ downloads[k].result = "item"
          /\ downloads[k].file_name \in Range(book.images)

C7_WitnessAbort ==
    /\ pc = "aborted"
    /\ ~ book.written
    /\ \E i \in 1..Len(tasks) : tasks[i] = "done"
    /\ \E i \in 1..Len(tasks) : tasks[i] = "raised_remote"
====
